---- MODULE Spec2Model ----
(***************************************************************************)
(* Model of install_requirements.Requirements                              *)
(* (src/install_requirements/install_requirements.py).                     *)
(*                                                                         *)
(* One manager object is constructed from a caller-supplied argument and   *)
(* is then used by its caller: install() and check_requirements() are      *)
(* called while the interpreter environment (the set of names that         *)
(* importlib.util.find_spec resolves) may change between the calls.        *)
(* install() is followed through its calls: the pip probe, the download of *)
(* get-pip.py, the start of the child process, the bounded wait, the kill, *)
(* the removal of the temporary file and the pip.main invocation.  What    *)
(* the operating system, the network and pip answer is an input chosen     *)
(* from the outcomes they can produce.                                     *)
(***************************************************************************)
EXTENDS Integers, Sequences, FiniteSets, TLC

VARIABLES
    input,                     \* the argument given to Requirements(...)
    env,                       \* names importlib.util.find_spec resolves now
    pc,                        \* position of the manager / of install()
    requirements,              \* self.requirements
    _requirements_to_install,  \* self._requirements_to_install
    ctorEnv,                   \* env as it was when __init__ ran
    outcome,                   \* how the last operation ended
    exc,                       \* the exception that left it, if any
    installs,                  \* number of install() calls so far
    envChanges,                \* number of outside changes of env so far
    tmpfile,                   \* get-pip.py exists in the temp directory
    proc,                      \* the child process of _install_pip
    run,                       \* what happened in the current install() call
    calls,                     \* the pip.main invocations made so far
    checkResult,               \* value check_requirements() has just returned
    checkEnv                   \* env as it was at that call

vars == <<input, env, pc, requirements, _requirements_to_install, ctorEnv,
          outcome, exc, installs, envChanges, tmpfile, proc, run, calls,
          checkResult, checkEnv>>

(***************************************************************************)
(* Bounds of the model.                                                    *)
(***************************************************************************)
MaxLen == 2          \* longest requirement list
MaxInstalls == 2     \* install() calls on one manager
MaxEnvChanges == 1   \* outside changes of the environment

(***************************************************************************)
(* Values.                                                                 *)
(***************************************************************************)
None == [tag |-> "None"]
List(s) == [tag |-> "list", items |-> s]

Reqs ==
    { [pip |-> "numpy==1.2.0", module |-> "numpy", version |-> "1.2.0"],
      [pip |-> "requests", module |-> "requests", version |-> "None"] }

Modules == {r.module : r \in Reqs}

ReqLists == UNION {[1..k -> Reqs] : k \in 0..MaxLen}

\* What a caller can pass: a list, or the path of a file that is absent,
\* holds malformed JSON, or holds a JSON array of requirement records.
Inputs ==
    {[kind |-> "list", file |-> "n/a", content |-> s] : s \in ReqLists}
    \cup {[kind |-> "path", file |-> "missing", content |-> <<>>],
          [kind |-> "path", file |-> "malformed", content |-> <<>>]}
    \cup {[kind |-> "path", file |-> "valid", content |-> s] : s \in ReqLists}

Return(v) == [raised |-> "none", value |-> v]
Raise(e) == [raised |-> e, value |-> None]

NoRun ==
    [is_pip_installed |-> "unset", install_pip |-> "unset",
     downloads |-> 0, downloaded |-> FALSE, spawned |-> 0,
     timedOut |-> FALSE, killed |-> FALSE, drained |-> FALSE,
     returncode |-> <<>>, imported |-> "unset", main |-> "unset"]

(***************************************************************************)
(* _get_requirements: a str argument is a path; an absent file is logged   *)
(* and the method returns None; json.load raises on malformed content.     *)
(***************************************************************************)
_get_requirements_swallow(req) ==
    IF req.kind = "path"
    THEN IF req.file = "missing" THEN Return(None)
         ELSE IF req.file = "malformed" THEN Return(List(<<>>))
         ELSE Return(List(req.content))
    ELSE Return(List(req.content))

_get_requirements(req) ==
    IF req.kind = "path"
    THEN IF req.file = "missing" THEN Return(None)
         ELSE IF req.file = "malformed" THEN Raise("JSONDecodeError")
         ELSE Return(List(req.content))
    ELSE Return(List(req.content))

(***************************************************************************)
(* check_requirements: the loop over self.requirements, appending every    *)
(* requirement whose module find_spec does not resolve.  Iterating None    *)
(* raises TypeError.                                                       *)
(***************************************************************************)
RECURSIVE check_loop(_, _, _, _)
check_loop(reqs, i, e, not_installed_requirements) ==
    IF i > Len(reqs)
    THEN not_installed_requirements
    ELSE check_loop(reqs, i + 1, e,
                    IF reqs[i].module \notin e
                    THEN Append(not_installed_requirements, reqs[i])
                    ELSE not_installed_requirements)

check_requirements_cached(self_requirements, e) ==
    IF self_requirements = None
    THEN Raise("TypeError")
    ELSE IF pc = "new"
         THEN Return(check_loop(self_requirements.items, 1, e, <<>>))
         ELSE Return(_requirements_to_install)

check_requirements(self_requirements, e) ==
    IF self_requirements = None
    THEN Raise("TypeError")
    ELSE Return(check_loop(self_requirements.items, 1, e, <<>>))

(***************************************************************************)
(* __init__: self.requirements is assigned, then the missing subset.  An   *)
(* exception of either call leaves the constructor: no manager exists.     *)
(***************************************************************************)
__init__ ==
    /\ pc = "new"
    /\ LET got == _get_requirements(input) IN
       IF got.raised # "none"
       THEN /\ pc' = "no_manager"
            /\ outcome' = "raised"
            /\ exc' = got.raised
            /\ UNCHANGED <<requirements, _requirements_to_install>>
       ELSE LET chk == check_requirements(got.value, env) IN
            /\ requirements' = got.value
            /\ IF chk.raised # "none"
               THEN /\ pc' = "no_manager"
                    /\ outcome' = "raised"
                    /\ exc' = chk.raised
                    /\ UNCHANGED _requirements_to_install
               ELSE /\ pc' = "idle"
                    /\ outcome' = "returned"
                    /\ exc' = "none"
                    /\ _requirements_to_install' = chk.value
    /\ ctorEnv' = env
    /\ UNCHANGED <<input, env, installs, envChanges, tmpfile, proc, run,
                   calls, checkResult, checkEnv>>

(***************************************************************************)
(* The environment changes outside the manager, between its operations: a  *)
(* module or pip is installed or removed by someone else.                  *)
(***************************************************************************)
EnvChange ==
    /\ pc = "idle"
    /\ envChanges < MaxEnvChanges
    /\ \E m \in Modules \cup {"pip"} :
         env' = IF m \in env THEN env \ {m} ELSE env \cup {m}
    /\ envChanges' = envChanges + 1
    /\ checkResult' = None
    /\ checkEnv' = {}
    /\ UNCHANGED <<input, pc, requirements, _requirements_to_install, ctorEnv,
                   outcome, exc, installs, tmpfile, proc, run, calls>>

(***************************************************************************)
(* A caller calls check_requirements() on the constructed manager.  The    *)
(* returned value is kept until the next operation or change begins.       *)
(***************************************************************************)
call_check_requirements ==
    /\ pc = "idle"
    /\ LET chk == check_requirements(requirements, env) IN
       /\ checkResult' = List(chk.value)
       /\ checkEnv' = env
    /\ UNCHANGED <<input, env, pc, requirements, _requirements_to_install,
                   ctorEnv, outcome, exc, installs, envChanges, tmpfile, proc,
                   run, calls>>

(***************************************************************************)
(* install(), first lines: nothing is missing, so it logs and returns;     *)
(* otherwise it goes on to probe for pip.                                  *)
(***************************************************************************)
all_available_unchecked(to_install) == FALSE

all_available(to_install) == to_install = <<>>

install ==
    /\ pc = "idle"
    /\ installs < MaxInstalls
    /\ installs' = installs + 1
    /\ run' = NoRun
    /\ exc' = "none"
    /\ IF all_available(_requirements_to_install)
       THEN pc' = "idle" /\ outcome' = "returned"
       ELSE pc' = "_is_pip_installed" /\ outcome' = "running"
    /\ checkResult' = None
    /\ checkEnv' = {}
    /\ UNCHANGED <<input, env, requirements, _requirements_to_install,
                   ctorEnv, envChanges, tmpfile, proc, calls>>

(***************************************************************************)
(* _is_pip_installed: find_spec("pip"), and the branch install() takes.    *)
(***************************************************************************)
find_spec(name, e) == name \in e

_is_pip_installed ==
    /\ pc = "_is_pip_installed"
    /\ IF find_spec("pip", env)
       THEN /\ run' = [run EXCEPT !.is_pip_installed = "True"]
            /\ pc' = "_install_requirements"
       ELSE /\ run' = [run EXCEPT !.is_pip_installed = "False"]
            /\ pc' = "_download_get_pip"
    /\ UNCHANGED <<input, env, requirements, _requirements_to_install,
                   ctorEnv, outcome, exc, installs, envChanges, tmpfile, proc,
                   calls, checkResult, checkEnv>>

(***************************************************************************)
(* install() after _install_pip has returned: False ends install().        *)
(***************************************************************************)
install_goes_on_always(installed) == TRUE

install_goes_on(installed) == installed

Return_install_pip(installed, r) ==
    /\ run' = [r EXCEPT !.install_pip = IF installed THEN "True" ELSE "False"]
    /\ IF install_goes_on(installed)
       THEN pc' = "_install_requirements" /\ UNCHANGED <<outcome, exc>>
       ELSE pc' = "idle" /\ outcome' = "returned" /\ exc' = "none"

\* An exception nothing catches leaves install().
Propagate(e, r) ==
    /\ run' = r
    /\ pc' = "idle"
    /\ outcome' = "raised"
    /\ exc' = e

(***************************************************************************)
(* _download_get_pip and the test of its result in _install_pip.  Only     *)
(* URLError (ContentTooShortError is one, raised after the file has been   *)
(* written) is caught; any other exception of urlretrieve propagates.      *)
(***************************************************************************)
DownloadOutcomes == {"ok", "URLError", "ContentTooShortError", "OSError"}

_download_get_pip ==
    /\ pc = "_download_get_pip"
    /\ \E res \in DownloadOutcomes :
         LET r == [run EXCEPT !.downloads = @ + 1] IN
         CASE res = "ok" ->
                /\ tmpfile' = TRUE
                /\ run' = [r EXCEPT !.downloaded = TRUE]
                /\ pc' = "Popen"
                /\ UNCHANGED <<outcome, exc>>
           [] res = "URLError" ->
                /\ UNCHANGED tmpfile
                /\ Return_install_pip(FALSE, r)
           [] res = "ContentTooShortError" ->
                /\ tmpfile' = TRUE
                /\ Return_install_pip(FALSE, r)
           [] res = "OSError" ->
                /\ UNCHANGED tmpfile
                /\ Propagate("OSError", r)
    /\ UNCHANGED <<input, env, requirements, _requirements_to_install,
                   ctorEnv, installs, envChanges, proc, calls, checkResult,
                   checkEnv>>

(***************************************************************************)
(* _install_pip: subprocess.Popen, outside the try statement.              *)
(***************************************************************************)
Popen ==
    /\ pc = "Popen"
    /\ \E started \in BOOLEAN :
         IF started
         THEN /\ proc' = "running"
              /\ run' = [run EXCEPT !.spawned = @ + 1, !.returncode = <<>>]
              /\ pc' = "communicate"
              /\ UNCHANGED <<outcome, exc>>
         ELSE /\ UNCHANGED proc
              /\ Propagate("OSError", run)
    /\ UNCHANGED <<input, env, requirements, _requirements_to_install,
                   ctorEnv, installs, envChanges, tmpfile, calls, checkResult,
                   checkEnv>>

\* get-pip.py that ended with 0 has installed pip; whether the running
\* interpreter finds it depends on where it was installed.
EnvAfterChild(rc) == IF rc = 0 THEN {env, env \cup {"pip"}} ELSE {env}

(***************************************************************************)
(* _install_pip: proc.communicate(timeout=timeout).                        *)
(***************************************************************************)
ExitCodes == {0, 1}

communicate ==
    /\ pc = "communicate"
    /\ proc = "running"
    /\ \/ \E rc \in ExitCodes :
            /\ proc' = "exited"
            /\ run' = [run EXCEPT !.returncode = <<rc>>]
            /\ env' \in EnvAfterChild(rc)
            /\ pc' = "remove"
       \/ /\ run' = [run EXCEPT !.timedOut = TRUE]
          /\ pc' = "kill"
          /\ UNCHANGED <<proc, env>>
    /\ UNCHANGED <<input, requirements, _requirements_to_install, ctorEnv,
                   outcome, exc, installs, envChanges, tmpfile, calls,
                   checkResult, checkEnv>>

(***************************************************************************)
(* _install_pip, except TimeoutExpired: proc.kill() and the second         *)
(* communicate().  The return code is the one the system reports: that of  *)
(* the signal, or the child's own when it ended before the signal arrived. *)
(***************************************************************************)
CodesAfterKill == {-9, 0, 1}

kill ==
    /\ pc = "kill"
    /\ proc = "running"
    /\ \E rc \in CodesAfterKill :
         /\ proc' = "exited"
         /\ run' = [run EXCEPT !.killed = TRUE, !.drained = TRUE,
                               !.returncode = <<rc>>]
         /\ env' \in EnvAfterChild(rc)
    /\ pc' = "remove"
    /\ UNCHANGED <<input, requirements, _requirements_to_install, ctorEnv,
                   outcome, exc, installs, envChanges, tmpfile, calls,
                   checkResult, checkEnv>>

(***************************************************************************)
(* _install_pip, finally: os.remove(get_pip_file), then the test of the    *)
(* return code.  An exception of os.remove propagates.                     *)
(***************************************************************************)
pip_was_installed(returncode) == returncode = 0

remove ==
    /\ pc = "remove"
    /\ \E removed \in BOOLEAN :
         IF removed
         THEN /\ tmpfile' = FALSE
              /\ Return_install_pip(pip_was_installed(run.returncode[1]), run)
         ELSE /\ UNCHANGED tmpfile
              /\ Propagate("OSError", run)
    /\ UNCHANGED <<input, env, requirements, _requirements_to_install,
                   ctorEnv, installs, envChanges, proc, calls, checkResult,
                   checkEnv>>

(***************************************************************************)
(* _install_requirements: the argument list, import pip, pip.main.  The    *)
(* bare except catches whatever the import or the call raises.  pip.main   *)
(* may make any of the requested modules resolvable.                       *)
(***************************************************************************)
pips(reqs) == [i \in 1..Len(reqs) |-> reqs[i].pip]

pip_args_all(to_install) == <<"install">> \o pips(requirements.items)

pip_args_fresh(to_install) ==
    <<"install">> \o pips(check_loop(requirements.items, 1, env, <<>>))

pip_args(to_install) == <<"install">> \o pips(to_install)

ImportOutcomes(e) ==
    IF find_spec("pip", e) THEN {"ok", "ImportError"} ELSE {"ImportError"}

_install_requirements ==
    /\ pc = "_install_requirements"
    /\ \E imp \in ImportOutcomes(env) :
         IF imp = "ok"
         THEN \E S \in SUBSET {r.module : r \in Reqs}, res \in {"returned", "raised"} :
                /\ S \subseteq {_requirements_to_install[i].module :
                                  i \in 1..Len(_requirements_to_install)}
                /\ calls' = Append(calls,
                                   [args |-> pip_args(_requirements_to_install),
                                    env |-> env, install |-> installs])
                /\ env' = env \cup S
                /\ run' = [run EXCEPT !.imported = "ok", !.main = res]
         ELSE /\ run' = [run EXCEPT !.imported = imp]
              /\ UNCHANGED <<calls, env>>
    /\ pc' = "idle"
    /\ outcome' = "returned"
    /\ exc' = "none"
    /\ UNCHANGED <<input, requirements, _requirements_to_install, ctorEnv,
                   installs, envChanges, tmpfile, proc, checkResult, checkEnv>>

Init ==
    /\ input \in Inputs
    /\ env \in SUBSET (Modules \cup {"pip"})
    /\ pc = "new"
    /\ requirements = None
    /\ _requirements_to_install = <<>>
    /\ ctorEnv = {}
    /\ outcome = "none"
    /\ exc = "none"
    /\ installs = 0
    /\ envChanges = 0
    /\ tmpfile = FALSE
    /\ proc = "none"
    /\ run = NoRun
    /\ calls = <<>>
    /\ checkResult = None
    /\ checkEnv = {}

Next ==
    \/ __init__
    \/ EnvChange
    \/ call_check_requirements
    \/ install
    \/ _is_pip_installed
    \/ _download_get_pip
    \/ Popen
    \/ communicate
    \/ kill
    \/ remove
    \/ _install_requirements

Spec == Init /\ [][Next]_vars

(***************************************************************************)
(* Vocabulary of the properties.                                           *)
(***************************************************************************)
Constructed == pc \notin {"new", "no_manager"}

\* install() has been called and has ended, normally or not.
InstallEnded == pc = "idle" /\ installs > 0

InstallReturned == InstallEnded /\ outcome = "returned"

\* The pip.main invocations of the current install() call.
RunCalls == SelectSeq(calls, LAMBDA c : c.install = installs)

\* The installer is available in this call of install(): the probe found
\* pip, or _install_pip returned True.
Available == run.is_pip_installed = "True" \/ run.install_pip = "True"

\* _install_pip has been entered and left (by return or by exception).
InstallPipEnded ==
    /\ run.downloads > 0
    /\ pc \in {"idle", "_install_requirements"}

\* The requirements whose module was not resolvable at construction.
MissingAtConstruction ==
    SelectSeq(requirements.items, LAMBDA r : r.module \notin ctorEnv)

IsInstallOf(args, reqs) ==
    /\ Len(args) = Len(reqs) + 1
    /\ args[1] = "install"
    /\ \A j \in 1..Len(reqs) : args[j + 1] = reqs[j].pip

(***************************************************************************)
(* C1: when the missing subset computed at construction is empty, every    *)
(* install() returns at once: no pip.main invocation, no pip probe, no     *)
(* download of get-pip.py and no child process, whatever the environment.  *)
(***************************************************************************)
C1_SatisfiedInstallDoesNothing ==
    (Constructed /\ installs > 0 /\ _requirements_to_install = <<>>)
        => /\ pc = "idle"
           /\ outcome = "returned"
           /\ calls = <<>>
           /\ run.is_pip_installed = "unset"
           /\ run.downloads = 0
           /\ run.spawned = 0
           /\ ~tmpfile

C1_Witness ==
    /\ Constructed
    /\ installs > 0
    /\ _requirements_to_install = <<>>
    /\ requirements.items # <<>>
    /\ "pip" \notin env

C4_CheckReflectsCallTime ==
    (checkResult # None)
        => checkResult.items
             = SelectSeq(requirements.items, LAMBDA r : r.module \notin checkEnv)

C4_Witness ==
    /\ checkResult # None
    /\ calls # <<>>
    /\ Len(requirements.items) = 2
    /\ Len(checkResult.items) = 1
    /\ Len(_requirements_to_install) = 2
    /\ checkEnv # ctorEnv

(***************************************************************************)
(* C5 as stated: no exception crosses the install() boundary.              *)
(***************************************************************************)
C5_InstallNeverRaises == ~(InstallEnded /\ outcome = "raised")

(***************************************************************************)
(* C6 as stated: once _install_pip has ended after a successful download,  *)
(* the temporary get-pip.py no longer exists.                              *)
(***************************************************************************)
C6_TempFileNeverLeftBehind ==
    (InstallPipEnded /\ run.downloaded) => ~tmpfile

(***************************************************************************)
(* C7 as stated: when the child exceeded the timeout, _install_pip ends    *)
(* with the child killed, its output collected, the temporary file         *)
(* removed, and the value False.                                           *)
(***************************************************************************)
C7_TimeoutReturnsFalse ==
    (InstallPipEnded /\ run.timedOut)
        => /\ run.killed
           /\ run.drained
           /\ ~tmpfile
           /\ run.install_pip = "False"

(***************************************************************************)
(* C8 as stated: constructing with the path of an absent manifest does not *)
(* raise, and the requirement set and the missing subset are empty.        *)
(***************************************************************************)
C8_MissingManifestConstructs ==
    (pc # "new" /\ input.kind = "path" /\ input.file = "missing")
        => /\ Constructed
           /\ requirements = List(<<>>)
           /\ _requirements_to_install = <<>>

(***************************************************************************)
(* C9: constructing with the path of an existing manifest whose content is *)
(* malformed JSON raises the parse error; no manager is constructed.       *)
(***************************************************************************)
C9_MalformedManifestRaises ==
    (pc # "new" /\ input.kind = "path" /\ input.file = "malformed")
        => /\ pc = "no_manager"
           /\ outcome = "raised"
           /\ exc = "JSONDecodeError"

C9_Witness ==
    /\ pc = "no_manager"
    /\ input.kind = "path"
    /\ input.file = "malformed"
    /\ exc = "JSONDecodeError"

(***************************************************************************)
(* C10: after construction no step changes the missing subset, and every   *)
(* pip.main invocation has the arguments built from it, whatever the       *)
(* environment has become: a second install() repeats the same arguments.  *)
(***************************************************************************)
C10_MissingSubsetFrozen ==
    /\ [][pc # "new" => _requirements_to_install' = _requirements_to_install]_vars
    /\ [](\A i \in 1..Len(calls) :
            IsInstallOf(calls[i].args, _requirements_to_install))

C10_Witness ==
    /\ Len(calls) = 2
    /\ calls[1].args = calls[2].args
    /\ \E j \in 1..Len(_requirements_to_install) :
         _requirements_to_install[j].module \in calls[2].env
    /\ \E j \in 1..Len(requirements.items) :
         /\ requirements.items[j].module \notin calls[2].env
         /\ requirements.items[j].module \in ctorEnv

====
